---- MODULE Spec2Model ----
(***************************************************************************)
(* A model of stopwatch-rs (src/src/main.rs): the registry of timers kept  *)
(* by State, the counter task that advances one Time behind a tokio Mutex, *)
(* and the main loop that snapshots every Time and then handles one key.   *)
(*                                                                         *)
(* Threads.  #[tokio::main(worker_threads = 2)] runs main on the thread    *)
(* that calls block_on and the spawned counter tasks on two worker         *)
(* threads, so a counter task can be in the middle of a poll while the     *)
(* main loop handles a key.  A task is either parked (pc "idle_tick",      *)
(* "idle_lock"), being polled (every other live pc), or gone ("cancelled", *)
(* "panicked").  JoinHandle::abort only marks the task: a parked task is   *)
(* dropped, a task being polled runs on until its next await returns       *)
(* Pending and is dropped there.                                           *)
(*                                                                         *)
(* Indices are 0-based as in the source: the slot at index i is            *)
(* timers[i + 1].                                                          *)
(***************************************************************************)
EXTENDS Integers, Sequences, FiniteSets, TLC

\* ------------------------------------------------------------ bounds
\* Spec, the whole program: timers created after the initial one, tick deadlines
\* that pass (over all counters), and ctrl+d, 'l' and ctrl+q keys handled, in one
\* behaviour.
MaxSpawn == 2
MaxSeconds == 1
MaxKeys == 1
\* SpecKeys, the key handlers before any tick deadline has passed: timers created
\* after the initial one, and ctrl+d, 'l' and ctrl+q keys handled, in one
\* behaviour.
KeysMaxSpawn == 8
KeysMaxKeys == 2
\* SpecClock, one counter: tick deadlines that pass in one behaviour.
MaxRun == 3
\* SpecPair, two counters and no other key than ctrl+a: tick deadlines that pass
\* (over both counters) in one behaviour.
PairSeconds == 12
\* Allocations the model has room for.
MaxIds == 10

\* ------------------------------------------------------------ program constants
\* the 8 of add_timer and of the ctrl+a handler
CAPACITY == 8
\* #[tokio::main(worker_threads = 2)]
WorkerThreads == 2
\* values of a u16
U16 == 65536

Ids == 1..MaxIds
NoTask == 0
Chars == {"a"}
NoLabel == "None"
\* The label State::new takes from the process arguments.
InitialLabels == {NoLabel}

VARIABLES
    timers,          \* State.timers: Seq of Timer
    selected_timer,  \* State.selected_timer
    input_mode,      \* State.input_mode
    input_buffer,    \* State.input_buffer
    time,            \* the Time behind each Arc<Mutex<Time>>, by allocation
    guard,           \* who holds each Mutex: "free", "ticker", "reader"
    advances,        \* completed passes of a counter through its loop body, by
                     \* Time, kept as n = 86400 * q + r
    task,            \* each spawned task: its position, its abort mark, its Time
    elapsed,         \* tick deadlines of each task's interval that have passed
    fired,           \* interval.tick() calls of each task that have returned
    origin,          \* seconds each task had run when the behaviour starts
    mainpc,          \* position of the main task: "snap", "clone", "input" in the
                     \* main loop, "confirm" in the quit prompt, then "returned",
                     \* "closing" (the runtime is being dropped), "exited"
    snap_i,          \* index of the snapshot loop
    time_snapshots,  \* the batch being built
    nextId,          \* next allocation of a Time
    nextTask,        \* next task spawned
    last,            \* the key handled in this iteration of the main loop, with
                     \* len, selected and every Time as they were before it
    ticks_left,      \* tick deadlines the behaviour may still pass
    keys_left,       \* ctrl+d, 'l' and ctrl+q keys the behaviour may still handle
    spawns_left      \* timers the behaviour may still create

vars == <<timers, selected_timer, input_mode, input_buffer, time, guard, advances,
          task, elapsed, fired, mainpc, snap_i, time_snapshots, nextId, nextTask,
          last, ticks_left, keys_left, spawns_left, origin>>

regvars == <<timers, selected_timer, input_mode, input_buffer>>
tickvars == <<time, guard, advances, task, elapsed, fired>>
allocvars == <<nextId, nextTask>>
bvars == <<ticks_left, keys_left, spawns_left>>

\* ------------------------------------------------------------ Time
TimeNew == [second |-> 0, minute |-> 0, hour |-> 0, days |-> 0]

\* Every Timer holding the one Time of the first.
TimerNew_SharesTime(id, label) ==
    [timer_state |-> 1, label |-> label, task_handle |-> NoTask]

\* Timer::new(label): a fresh Arc<Mutex<Time>> (its allocation is id), no handle.
TimerNew(id, label) == [timer_state |-> id, label |-> label, task_handle |-> NoTask]

\* ------------------------------------------------------------ State
StateNew(initial_label) ==
    [timers |-> <<TimerNew(1, initial_label)>>, selected_timer |-> 0]

add_timer_KeepsSelection(st, id) ==
    IF Len(st.timers) < CAPACITY
    THEN [st EXCEPT !.timers = Append(st.timers, TimerNew(id, NoLabel))]
    ELSE st

add_timer(st, id) ==
    IF Len(st.timers) < CAPACITY
    THEN LET pushed == Append(st.timers, TimerNew(id, NoLabel))
         IN  [timers |-> pushed, selected_timer |-> Len(pushed) - 1]
    ELSE st

VecRemove_Truncates(v, i) == SubSeq(v, 1, Len(v) - 1)

\* Vec::remove(i): the elements after i shift down by one.
VecRemove(v, i) ==
    [k \in 1..(Len(v) - 1) |-> IF k < i + 1 THEN v[k] ELSE v[k + 1]]

\* The task remove_timer aborts, NoTask when it aborts none.
remove_timer_aborts(st) ==
    IF Len(st.timers) > 1
    THEN st.timers[st.selected_timer + 1].task_handle
    ELSE NoTask

remove_timer_NoClamp(st) ==
    IF Len(st.timers) > 1
    THEN [st EXCEPT !.timers = VecRemove(st.timers, st.selected_timer)]
    ELSE st

remove_timer_ClampsToFirst(st) ==
    IF Len(st.timers) > 1
    THEN LET removed == VecRemove(st.timers, st.selected_timer)
         IN  [timers |-> removed,
              selected_timer |->
                  IF st.selected_timer >= Len(removed) THEN 0 ELSE st.selected_timer]
    ELSE st

remove_timer(st) ==
    IF Len(st.timers) > 1
    THEN LET removed == VecRemove(st.timers, st.selected_timer)
         IN  [timers |-> removed,
              selected_timer |->
                  IF st.selected_timer >= Len(removed)
                  THEN Len(removed) - 1
                  ELSE st.selected_timer]
    ELSE st

next_timer_Saturates(st) ==
    IF st.selected_timer + 1 < Len(st.timers)
    THEN [st EXCEPT !.selected_timer = st.selected_timer + 1]
    ELSE st

next_timer(st) ==
    IF Len(st.timers) # 0
    THEN [st EXCEPT !.selected_timer = (st.selected_timer + 1) % Len(st.timers)]
    ELSE st

\* The label going to the first slot.
set_label_LabelsFirst(st, buffer) ==
    [st EXCEPT !.timers[1].label = IF buffer = "" THEN NoLabel ELSE buffer]

set_label(st, buffer) ==
    [st EXCEPT !.timers[st.selected_timer + 1].label =
                   IF buffer = "" THEN NoLabel ELSE buffer]

Reg == [timers |-> timers, selected_timer |-> selected_timer]

\* ------------------------------------------------------------ counter
\* u16 arithmetic: += 1 either fits or overflows.
Overflows(x) == x + 1 >= U16

SecondCarries(t) == t.second > 59
MinuteCarries(t) == t.minute > 59
HourCarries(t) == t.hour > 23

Parked == {"idle_tick", "idle_lock"}
Gone == {"none", "cancelled", "panicked"}
Polled(tk) == task[tk].pc \notin Parked \cup Gone
Live(tk) == task[tk].pc \notin Gone
WorkerFree == Cardinality({tk \in Ids : Polled(tk)}) < WorkerThreads

CountInc(c) ==
    IF c.r + 1 = 86400 THEN [q |-> c.q + 1, r |-> 0] ELSE [c EXCEPT !.r = @ + 1]

\* A tick deadline of the task's interval (start + n * 1 s) passes.
DeadlinePass(tk) ==
    /\ Live(tk)
    /\ ticks_left > 0
    /\ elapsed' = [elapsed EXCEPT ![tk] = @ + 1]
    /\ ticks_left' = ticks_left - 1
    /\ UNCHANGED <<regvars, time, guard, advances, task, fired, mainpc, snap_i,
                   time_snapshots, allocvars, last, keys_left, spawns_left, origin>>

\* An aborted task that is parked is dropped without being polled again.
TaskDropped(tk) ==
    /\ task[tk].pc \in Parked
    /\ task[tk].aborted
    /\ task' = [task EXCEPT ![tk].pc = "cancelled"]
    /\ UNCHANGED <<regvars, time, guard, advances, elapsed, fired, mainpc, snap_i,
                   time_snapshots, allocvars, last, bvars, origin>>

\* An interval whose first tick completes at once, as time::interval's does.
TickWake_FirstTickImmediate(tk) ==
    /\ task[tk].pc = "idle_tick"
    /\ ~task[tk].aborted
    /\ elapsed[tk] + 1 > fired[tk]
    /\ WorkerFree
    /\ fired' = [fired EXCEPT ![tk] = @ + 1]
    /\ task' = [task EXCEPT ![tk].pc = "lock"]
    /\ UNCHANGED <<regvars, time, guard, advances, elapsed, mainpc, snap_i,
                   time_snapshots, allocvars, last, bvars, origin>>

\* interval.tick().await of a parked task: woken once a deadline has passed.
TickWake(tk) ==
    /\ task[tk].pc = "idle_tick"
    /\ ~task[tk].aborted
    /\ elapsed[tk] > fired[tk]
    /\ WorkerFree
    /\ fired' = [fired EXCEPT ![tk] = @ + 1]
    /\ task' = [task EXCEPT ![tk].pc = "lock"]
    /\ UNCHANGED <<regvars, time, guard, advances, elapsed, mainpc, snap_i,
                   time_snapshots, allocvars, last, bvars, origin>>

\* interval.tick().await reached at the end of a loop iteration, within the same
\* poll: Ready when a deadline was missed meanwhile, Pending otherwise.
TickPoll(tk) ==
    /\ task[tk].pc = "tick"
    /\ IF elapsed[tk] > fired[tk]
       THEN /\ fired' = [fired EXCEPT ![tk] = @ + 1]
            /\ task' = [task EXCEPT ![tk].pc = "lock"]
       ELSE /\ fired' = fired
            /\ task' = [task EXCEPT ![tk].pc =
                            IF task[tk].aborted THEN "cancelled" ELSE "idle_tick"]
    /\ UNCHANGED <<regvars, time, guard, advances, elapsed, mainpc, snap_i,
                   time_snapshots, allocvars, last, bvars, origin>>

\* time.lock().await: Ready when the Mutex is free, Pending otherwise.
LockPoll(tk) ==
    /\ task[tk].pc = "lock"
    /\ IF guard[task[tk].time] = "free"
       THEN /\ guard' = [guard EXCEPT ![task[tk].time] = "ticker"]
            /\ task' = [task EXCEPT ![tk].pc = "inc_s"]
       ELSE /\ guard' = guard
            /\ task' = [task EXCEPT ![tk].pc =
                            IF task[tk].aborted THEN "cancelled" ELSE "idle_lock"]
    /\ UNCHANGED <<regvars, time, advances, elapsed, fired, mainpc, snap_i,
                   time_snapshots, allocvars, last, bvars, origin>>

\* time.lock().await of a parked task: woken once the Mutex is free.
LockWake(tk) ==
    /\ task[tk].pc = "idle_lock"
    /\ ~task[tk].aborted
    /\ guard[task[tk].time] = "free"
    /\ WorkerFree
    /\ task' = [task EXCEPT ![tk].pc = "lock"]
    /\ UNCHANGED <<regvars, time, guard, advances, elapsed, fired, mainpc, snap_i,
                   time_snapshots, allocvars, last, bvars, origin>>

\* One statement of the loop body, run on the Time t with time_guard held: the
\* outcomes the build can produce, each the Time after it and the statement that
\* runs next ("tick" when the body has ended, "panicked" when the task has).
\* days += 1 on a u16 that overflows panics in a build with overflow checks and
\* wraps to 0 in a build without them.
Statement(t, pc) ==
    CASE pc = "inc_s" ->   \* time_guard.second += 1; if time_guard.second > 59
             LET u == [t EXCEPT !.second = @ + 1]
             IN  {[time |-> u, pc |-> IF SecondCarries(u) THEN "rst_s" ELSE "tick"]}
      [] pc = "rst_s" ->   \* time_guard.second = 0
             {[time |-> [t EXCEPT !.second = 0], pc |-> "inc_m"]}
      [] pc = "inc_m" ->   \* time_guard.minute += 1; if time_guard.minute > 59
             LET u == [t EXCEPT !.minute = @ + 1]
             IN  {[time |-> u, pc |-> IF MinuteCarries(u) THEN "rst_m" ELSE "tick"]}
      [] pc = "rst_m" ->   \* time_guard.minute = 0
             {[time |-> [t EXCEPT !.minute = 0], pc |-> "inc_h"]}
      [] pc = "inc_h" ->   \* time_guard.hour += 1; if time_guard.hour > 23
             LET u == [t EXCEPT !.hour = @ + 1]
             IN  {[time |-> u, pc |-> IF HourCarries(u) THEN "rst_h" ELSE "tick"]}
      [] pc = "rst_h" ->   \* time_guard.hour = 0
             {[time |-> [t EXCEPT !.hour = 0], pc |-> "inc_d"]}
      [] pc = "inc_d" ->   \* time_guard.days += 1
             IF Overflows(t.days)
             THEN {[time |-> t, pc |-> "panicked"],
                   [time |-> [t EXCEPT !.days = (@ + 1) % U16], pc |-> "tick"]}
             ELSE {[time |-> [t EXCEPT !.days = @ + 1], pc |-> "tick"]}

InBody == {"inc_s", "rst_s", "inc_m", "rst_m", "inc_h", "rst_h", "inc_d"}

\* The task runs its next statement.  At the end of the body time_guard is
\* dropped and the loop is back at interval.tick(); a panic drops it too.
Body(tk) ==
    /\ task[tk].pc \in InBody
    /\ \E r \in Statement(time[task[tk].time], task[tk].pc) :
          /\ time' = [time EXCEPT ![task[tk].time] = r.time]
          /\ task' = [task EXCEPT ![tk].pc = r.pc]
          /\ guard' = [guard EXCEPT ![task[tk].time] =
                           IF r.pc \in {"tick", "panicked"} THEN "free" ELSE @]
          /\ advances' = [advances EXCEPT ![task[tk].time] =
                              IF r.pc = "tick" THEN CountInc(@) ELSE @]
    /\ UNCHANGED <<regvars, elapsed, fired, mainpc, snap_i, time_snapshots,
                   allocvars, last, bvars, origin>>

counter(tk) ==
    \/ DeadlinePass(tk)
    \/ TaskDropped(tk)
    \/ TickWake(tk)
    \/ TickPoll(tk)
    \/ LockPoll(tk)
    \/ LockWake(tk)
    \/ Body(tk)

\* ------------------------------------------------------------ main
\* tokio::spawn(counter(Arc::clone(&timer.timer_state))): task tk starts parked
\* at its first interval.tick(), holding the Time of the slot at index i.
Spawn(tasks, ts, i, tk) ==
    [tasks EXCEPT ![tk] =
        [pc |-> "idle_tick", aborted |-> FALSE, time |-> ts[i + 1].timer_state]]

\* timer.task_handle = Some(handle)
Spawned(ts, i, tk) == [ts EXCEPT ![i + 1].task_handle = tk]

\* handle.abort()
Abort(tasks, tk) ==
    IF tk = NoTask THEN tasks ELSE [tasks EXCEPT ![tk].aborted = TRUE]

NoLast == [key |-> "none", len |-> 0, sel |-> 0, time |-> <<>>]
Handled(key) ==
    [key |-> key, len |-> Len(timers), sel |-> selected_timer, time |-> time]

\* The snapshot loop takes the Mutex of the slot at snap_i ...
SnapLock ==
    /\ mainpc = "snap"
    /\ snap_i < Len(timers)
    /\ guard[timers[snap_i + 1].timer_state] = "free"
    /\ guard' = [guard EXCEPT ![timers[snap_i + 1].timer_state] = "reader"]
    /\ mainpc' = "clone"
    /\ last' = NoLast
    /\ UNCHANGED <<regvars, time, advances, task, elapsed, fired, snap_i,
                   time_snapshots, allocvars, bvars, origin>>

\* The loop pushing a clone of the selected timer's Time instead.
SnapClone_ReadsSelected ==
    /\ mainpc = "clone"
    /\ time_snapshots' =
           Append(time_snapshots, time[timers[selected_timer + 1].timer_state])
    /\ guard' = [guard EXCEPT ![timers[snap_i + 1].timer_state] = "free"]
    /\ snap_i' = snap_i + 1
    /\ mainpc' = "snap"
    /\ UNCHANGED <<regvars, time, advances, task, elapsed, fired, allocvars, last,
                   bvars, origin>>

\* The loop keeping every guard it takes.
SnapClone_KeepsGuard ==
    /\ mainpc = "clone"
    /\ time_snapshots' =
           Append(time_snapshots, time[timers[snap_i + 1].timer_state])
    /\ snap_i' = snap_i + 1
    /\ mainpc' = "snap"
    /\ UNCHANGED <<regvars, time, guard, advances, task, elapsed, fired, allocvars,
                   last, bvars, origin>>

\* ... pushes a clone of its Time, and drops the guard at the end of the iteration.
SnapClone ==
    /\ mainpc = "clone"
    /\ LET id == timers[snap_i + 1].timer_state
       IN  /\ time_snapshots' = Append(time_snapshots, time[id])
           /\ guard' = [guard EXCEPT ![id] = "free"]
    /\ snap_i' = snap_i + 1
    /\ mainpc' = "snap"
    /\ UNCHANGED <<regvars, time, advances, task, elapsed, fired, allocvars, last,
                   bvars, origin>>

\* terminal.draw: one box per timer from the batch.
Draw ==
    /\ mainpc = "snap"
    /\ snap_i = Len(timers)
    /\ mainpc' = "input"
    /\ UNCHANGED <<regvars, tickvars, snap_i, time_snapshots, allocvars, last,
                   bvars, origin>>

\* Every key handler ends the iteration: the loop is back at the snapshot loop.
NextIteration ==
    /\ mainpc' = "snap"
    /\ snap_i' = 0
    /\ time_snapshots' = <<>>

\* No event is pending, or a key the registry does not depend on.
NoKey ==
    /\ mainpc = "input"
    /\ NextIteration
    /\ last' = Handled("none")
    /\ UNCHANGED <<regvars, tickvars, allocvars, bvars, origin>>

\* ctrl+q: the confirmation prompt is drawn and the main task blocks in
\* event::read() for the answer.  The batch of this iteration is not read again.
KeyCtrlQ ==
    /\ mainpc = "input"
    /\ ~input_mode
    /\ mainpc' = "confirm"
    /\ keys_left > 0
    /\ keys_left' = keys_left - 1
    /\ snap_i' = 0
    /\ time_snapshots' = <<>>
    /\ last' = NoLast
    /\ UNCHANGED <<regvars, tickvars, allocvars, ticks_left, spawns_left, origin>>

\* 'n': break 'confirm_loop, the main loop goes on.
ConfirmNo ==
    /\ mainpc = "confirm"
    /\ NextIteration
    /\ UNCHANGED <<regvars, tickvars, allocvars, last, bvars, origin>>

\* 'y': break 'main_loop, ratatui::restore(), Ok(()): main returns, and the
\* runtime that #[tokio::main] built is dropped next.
ConfirmYes ==
    /\ mainpc = "confirm"
    /\ mainpc' = "returned"
    /\ UNCHANGED <<regvars, tickvars, snap_i, time_snapshots, allocvars, last,
                   bvars, origin>>

\* A runtime that lets go of its tasks without shutting them down.
RuntimeDrop_Detaches(tasks) == tasks

\* Dropping the runtime shuts down every task it owns: a parked task is dropped
\* on the spot, a task that is being polled is marked and dropped when its
\* poll returns Pending.
RuntimeDrop(tasks) ==
    [tk \in Ids |->
        IF tasks[tk].pc \in Parked THEN [tasks[tk] EXCEPT !.pc = "cancelled"]
        ELSE IF tasks[tk].pc \in Gone THEN tasks[tk]
        ELSE [tasks[tk] EXCEPT !.aborted = TRUE]]

\* The workers see the shutdown; until then they go on polling.
RuntimeShutdown ==
    /\ mainpc = "returned"
    /\ mainpc' = "closing"
    /\ task' = RuntimeDrop(task)
    /\ UNCHANGED <<regvars, time, guard, advances, elapsed, fired, snap_i,
                   time_snapshots, allocvars, last, bvars, origin>>

\* The drop of the runtime joins the worker threads, each after the poll it is
\* in; then the process exits.
ProcessExit ==
    /\ mainpc = "closing"
    /\ \A tk \in Ids : ~Polled(tk)
    /\ mainpc' = "exited"
    /\ UNCHANGED <<regvars, tickvars, snap_i, time_snapshots, allocvars, last,
                   bvars, origin>>

CtrlAChecks_OffByOne(st) == Len(st.timers) <= CAPACITY

\* if state.timers.len() < 8, in the ctrl+a handler
CtrlAChecks(st) == Len(st.timers) < CAPACITY

\* if state.timers.len() > 1, in the ctrl+d handler
CtrlDChecks(st) == Len(st.timers) > 1

\* ctrl+a: add_timer, then a counter is spawned on the last slot.  The Time that
\* add_timer allocates starts at Time::new().
KeyCtrlA ==
    /\ mainpc = "input"
    /\ ~input_mode
    /\ CtrlAChecks(Reg) => spawns_left > 0
    /\ IF CtrlAChecks(Reg)
       THEN LET st == add_timer(Reg, nextId)
                idx == Len(st.timers) - 1
                pushed == Len(st.timers) > Len(timers)
            IN  /\ timers' = Spawned(st.timers, idx, nextTask)
                /\ selected_timer' = st.selected_timer
                /\ task' = Spawn(task, st.timers, idx, nextTask)
                /\ nextTask' = nextTask + 1
                /\ nextId' = IF pushed THEN nextId + 1 ELSE nextId
                /\ time' = IF pushed THEN [time EXCEPT ![nextId] = TimeNew] ELSE time
                /\ spawns_left' = spawns_left - 1
       ELSE UNCHANGED <<timers, selected_timer, task, nextTask, nextId, time,
                        spawns_left>>
    /\ NextIteration
    /\ last' = Handled("ctrl_a")
    /\ UNCHANGED <<input_mode, input_buffer, guard, advances, elapsed, fired,
                   ticks_left, keys_left, origin>>

KeyCtrlD_AbortsFirst ==
    /\ mainpc = "input"
    /\ ~input_mode
    /\ keys_left > 0
    /\ keys_left' = keys_left - 1
    /\ task' = Abort(task, timers[selected_timer + 1].task_handle)
    /\ timers' = remove_timer(Reg).timers
    /\ selected_timer' = remove_timer(Reg).selected_timer
    /\ NextIteration
    /\ last' = Handled("ctrl_d")
    /\ UNCHANGED <<input_mode, input_buffer, time, guard, advances, elapsed, fired,
                   allocvars, ticks_left, spawns_left, origin>>

\* ctrl+d: remove_timer
KeyCtrlD ==
    /\ mainpc = "input"
    /\ ~input_mode
    /\ keys_left > 0
    /\ keys_left' = keys_left - 1
    /\ IF CtrlDChecks(Reg)
       THEN /\ task' = Abort(task, remove_timer_aborts(Reg))
            /\ timers' = remove_timer(Reg).timers
            /\ selected_timer' = remove_timer(Reg).selected_timer
       ELSE UNCHANGED <<timers, selected_timer, task>>
    /\ NextIteration
    /\ last' = Handled("ctrl_d")
    /\ UNCHANGED <<input_mode, input_buffer, time, guard, advances, elapsed, fired,
                   allocvars, ticks_left, spawns_left, origin>>

\* Tab: next_timer
KeyTab ==
    /\ mainpc = "input"
    /\ ~input_mode
    /\ timers' = next_timer(Reg).timers
    /\ selected_timer' = next_timer(Reg).selected_timer
    /\ NextIteration
    /\ last' = Handled("tab")
    /\ UNCHANGED <<input_mode, input_buffer, tickvars, allocvars, bvars, origin>>

\* 'l': input mode
KeyL ==
    /\ mainpc = "input"
    /\ ~input_mode
    /\ keys_left > 0
    /\ keys_left' = keys_left - 1
    /\ input_mode' = TRUE
    /\ input_buffer' = ""
    /\ NextIteration
    /\ last' = Handled("l")
    /\ UNCHANGED <<timers, selected_timer, tickvars, allocvars, ticks_left,
                   spawns_left, origin>>

\* a character in input mode (the model keeps buffers of at most one character)
KeyChar(c) ==
    /\ mainpc = "input"
    /\ input_mode
    /\ input_buffer = ""
    /\ input_buffer' = c
    /\ NextIteration
    /\ last' = Handled("char")
    /\ UNCHANGED <<timers, selected_timer, input_mode, tickvars, allocvars, bvars,
                   origin>>

\* Backspace in input mode: input_buffer.pop(), on a buffer of at most one
\* character
KeyBackspace ==
    /\ mainpc = "input"
    /\ input_mode
    /\ input_buffer' = ""
    /\ NextIteration
    /\ last' = Handled("backspace")
    /\ UNCHANGED <<timers, selected_timer, input_mode, tickvars, allocvars, bvars,
                   origin>>

\* Esc in input mode
KeyEsc ==
    /\ mainpc = "input"
    /\ input_mode
    /\ input_mode' = FALSE
    /\ input_buffer' = ""
    /\ NextIteration
    /\ last' = Handled("esc")
    /\ UNCHANGED <<timers, selected_timer, tickvars, allocvars, bvars, origin>>

\* Enter in input mode: set_label, which also clears the buffer and leaves
\* input mode
KeyEnter ==
    /\ mainpc = "input"
    /\ input_mode
    /\ timers' = set_label(Reg, input_buffer).timers
    /\ selected_timer' = set_label(Reg, input_buffer).selected_timer
    /\ input_buffer' = ""
    /\ input_mode' = FALSE
    /\ NextIteration
    /\ last' = Handled("enter")
    /\ UNCHANGED <<tickvars, allocvars, bvars, origin>>

main ==
    \/ SnapLock
    \/ SnapClone
    \/ Draw
    \/ NoKey
    \/ KeyCtrlQ
    \/ ConfirmNo
    \/ ConfirmYes
    \/ RuntimeShutdown
    \/ ProcessExit
    \/ KeyCtrlA
    \/ KeyCtrlD
    \/ KeyTab
    \/ KeyL
    \/ \E c \in Chars : KeyChar(c)
    \/ KeyBackspace
    \/ KeyEsc
    \/ KeyEnter

\* ------------------------------------------------------------ the program
\* The passes through the loop body that take a Time from Time::new() to t.
Count(t) == [q |-> t.days, r |-> 3600 * t.hour + 60 * t.minute + t.second]

\* State::new(), then main spawns a counter for the one timer there is.  Boot is
\* that state with the one Time at t0.
Boot(t0) ==
    /\ \E initial_label \in InitialLabels :
          LET st == StateNew(initial_label)
          IN  /\ timers = Spawned(st.timers, 0, 1)
              /\ selected_timer = st.selected_timer
              /\ task = Spawn([tk \in Ids |-> [pc |-> "none", aborted |-> FALSE,
                                               time |-> tk]],
                              st.timers, 0, 1)
    /\ input_mode = FALSE
    /\ input_buffer = ""
    /\ time = [id \in Ids |-> IF id = 1 THEN t0 ELSE TimeNew]
    /\ guard = [id \in Ids |-> "free"]
    /\ advances = [id \in Ids |-> IF id = 1 THEN Count(t0) ELSE Count(TimeNew)]
    /\ elapsed = [tk \in Ids |-> 0]
    /\ fired = [tk \in Ids |-> 0]
    /\ origin = [tk \in Ids |-> IF tk = 1 THEN Count(t0) ELSE Count(TimeNew)]
    /\ mainpc = "snap"
    /\ snap_i = 0
    /\ time_snapshots = <<>>
    /\ nextId = 2
    /\ nextTask = 2
    /\ last = NoLast

Init ==
    /\ Boot(TimeNew)
    /\ ticks_left = MaxSeconds
    /\ keys_left = MaxKeys
    /\ spawns_left = MaxSpawn

Next == main \/ \E tk \in Ids : counter(tk)

Spec == Init /\ [][Next]_vars

\* The key handlers of a program in which no tick deadline has passed yet.
InitKeys ==
    /\ Boot(TimeNew)
    /\ ticks_left = 0
    /\ keys_left = KeysMaxKeys
    /\ spawns_left = KeysMaxSpawn

NextKeys == main \/ \E tk \in Ids : TaskDropped(tk)

SpecKeys == InitKeys /\ [][NextKeys]_vars

\* One counter and the snapshot loop, from a Time the counter has reached: the
\* second, minute and hour are about to carry or not, and days is 0 or the
\* largest u16.
StartTimes ==
    {[second |-> s, minute |-> m, hour |-> h, days |-> d] :
        s \in {0, 58}, m \in {0, 59}, h \in {0, 23}, d \in {0, U16 - 1}}

InitClock ==
    /\ \E t0 \in StartTimes : Boot(t0)
    /\ ticks_left = MaxRun
    /\ keys_left = 0
    /\ spawns_left = 0

NextClock ==
    \/ SnapLock
    \/ SnapClone
    \/ Draw
    \/ NoKey
    \/ DeadlinePass(1)
    \/ TickWake(1)
    \/ TickPoll(1)
    \/ LockPoll(1)
    \/ LockWake(1)
    \/ Body(1)

SpecClock == InitClock /\ [][NextClock]_vars

\* time.lock().await returning the guard.
LockAcquire(tk) == LockPoll(tk) /\ guard[task[tk].time] = "free"

\* The scheduling of SpecClock.  A task that can run is run: the main task is
\* polled on its own thread and a woken counter on a free worker.  The tokio
\* Mutex hands the lock to its waiters in the order they came, so a lock().await
\* that finds the Mutex free again and again does get it; hence the strong
\* fairness of the steps that take it.  No deadline has to pass.
FairClock ==
    /\ SF_vars(SnapLock)
    /\ WF_vars(SnapClone)
    /\ WF_vars(Draw)
    /\ WF_vars(NoKey)
    /\ SF_vars(TickWake(1))
    /\ WF_vars(TickPoll(1))
    /\ SF_vars(LockWake(1))
    /\ SF_vars(LockAcquire(1))
    /\ WF_vars(Body(1))

SpecClockFair == SpecClock /\ FairClock

\* The program from the 63rd second of its one timer, with ctrl+a as the only
\* key and room for one more timer.
PairStart == [second |-> 3, minute |-> 1, hour |-> 0, days |-> 0]

InitPair ==
    /\ Boot(PairStart)
    /\ ticks_left = PairSeconds
    /\ keys_left = 0
    /\ spawns_left = 1

NextPair ==
    \/ SnapLock
    \/ SnapClone
    \/ Draw
    \/ NoKey
    \/ KeyCtrlA
    \/ \E tk \in 1..2 :
          \/ DeadlinePass(tk)
          \/ TickWake(tk)
          \/ TickPoll(tk)
          \/ LockPoll(tk)
          \/ LockWake(tk)
          \/ Body(tk)

SpecPair == InitPair /\ [][NextPair]_vars


\* ------------------------------------------------------------ claims
\* The step of the main loop that handles the key k.
Handles(k) == mainpc = "input" /\ last'.key = k

Min(a, b) == IF a < b THEN a ELSE b

\* C1: in every state the key handlers reach, 1 <= len(timers) <= CAPACITY and
\* 0 <= selected_timer < len(timers): the registry is never empty.
RegistryInvariant ==
    /\ 1 <= Len(timers)
    /\ Len(timers) <= CAPACITY
    /\ 0 <= selected_timer
    /\ selected_timer < Len(timers)

\* ctrl+d has just removed the last slot of a full registry.
RegistryInvariantWitness ==
    /\ last.key = "ctrl_d"
    /\ last.len = CAPACITY
    /\ last.sel = CAPACITY - 1
    /\ Len(timers) = CAPACITY - 1

\* C5: below capacity, ctrl+a appends exactly one slot whose Time is zero and
\* new, spawns a task parked on that Time and stores its handle in the slot,
\* selects the new last index, and leaves the slots there were in place.
AddBelowCapacity ==
    [][(Handles("ctrl_a") /\ Len(timers) < CAPACITY) =>
          /\ Len(timers') = Len(timers) + 1
          /\ \A k \in 1..Len(timers) : timers'[k] = timers[k]
          /\ selected_timer' = Len(timers') - 1
          /\ LET new == timers'[Len(timers')]
             IN  /\ \A k \in 1..Len(timers) :
                        timers[k].timer_state # new.timer_state
                 /\ time'[new.timer_state] = TimeNew
                 /\ new.task_handle # NoTask
                 /\ task[new.task_handle].pc = "none"
                 /\ task'[new.task_handle] =
                        [pc |-> "idle_tick", aborted |-> FALSE,
                         time |-> new.timer_state]
                 /\ \A tk \in Ids \ {new.task_handle} : task'[tk] = task[tk]
    ]_vars

\* ctrl+a has just added a fourth timer while the first was selected.
AddBelowCapacityWitness ==
    /\ last.key = "ctrl_a"
    /\ last.len = 3
    /\ last.sel = 0
    /\ Len(timers) = 4
    /\ selected_timer = 3

\* C6: at capacity, ctrl+a changes neither the slots nor the selection,
\* allocates no Time and spawns no task.
AddAtCapacityNoOp ==
    [][(Handles("ctrl_a") /\ Len(timers) = CAPACITY) =>
          UNCHANGED <<timers, selected_timer, time, task, nextId, nextTask>>
    ]_vars

\* ctrl+a has just been handled with a full registry.
AddAtCapacityNoOpWitness ==
    /\ last.key = "ctrl_a"
    /\ last.len = CAPACITY
    /\ Len(timers) = CAPACITY

\* C8: with more than one timer, ctrl+d leaves selected_timer at
\* min(old selected_timer, new len - 1): unchanged unless the last slot was
\* removed, and then the new last index.
SelectionAfterRemoval ==
    [][(Handles("ctrl_d") /\ Len(timers) > 1) =>
          /\ Len(timers') = Len(timers) - 1
          /\ selected_timer' = Min(selected_timer, Len(timers') - 1)
          /\ selected_timer < Len(timers) - 1 => selected_timer' = selected_timer
          /\ selected_timer = Len(timers) - 1 => selected_timer' = Len(timers') - 1
    ]_vars

\* ctrl+d has just removed the last of three slots: the selection moved to 1.
SelectionAfterRemovalWitness ==
    /\ last.key = "ctrl_d"
    /\ last.len = 3
    /\ last.sel = 2
    /\ selected_timer = 1

RECURSIVE next_timer_times(_, _)
next_timer_times(st, n) ==
    IF n = 0 THEN st ELSE next_timer_times(next_timer(st), n - 1)

\* C9: Tab moves selected_timer to (selected_timer + 1) mod len and changes
\* nothing else of the registry or the counters; and from every index of a
\* registry of the length reached, len applications of next_timer come back to
\* that index.
CircularSelection ==
    /\ [](\A s \in 0..(Len(timers) - 1) :
             LET st == [Reg EXCEPT !.selected_timer = s]
             IN  next_timer_times(st, Len(timers)) = st)
    /\ [][Handles("tab") =>
             /\ selected_timer' = (selected_timer + 1) % Len(timers)
             /\ UNCHANGED <<timers, input_mode, input_buffer, tickvars, allocvars>>
       ]_vars

\* Tab has just wrapped from the last slot of a full registry to the first.
CircularSelectionWitness ==
    /\ last.key = "tab"
    /\ last.len = CAPACITY
    /\ last.sel = CAPACITY - 1
    /\ selected_timer = 0


\* The slots of the registry hold the Time id.
InRegistry(id) == \E k \in 1..Len(timers) : timers[k].timer_state = id

\* C3: the task of the removed slot is aborted before the slot is removed, and
\* once a slot has been removed from timers nothing is done to its Time any
\* more, however its counter and the main loop interleave.
CancelBeforeDrop ==
    /\ [][Handles("ctrl_d") /\ Len(timers) > 1 =>
             task'[timers[selected_timer + 1].task_handle].aborted]_vars
    /\ [][\A id \in 1..(nextId - 1) : ~InRegistry(id) => time'[id] = time[id]]_vars

\* C4: ctrl+d on a slot that is neither first nor last leaves the slots below it
\* in place and moves each slot above it down by one, the slot that was at
\* selected_timer + 1 to selected_timer; it changes no Time, and every slot that
\* remains keeps its own task, live, not aborted and counting on that slot's Time.
RemovalCompacts ==
    [][(Handles("ctrl_d") /\ 0 < selected_timer /\ selected_timer < Len(timers) - 1) =>
          /\ Len(timers') = Len(timers) - 1
          /\ \A k \in 1..Len(timers') :
                timers'[k] = IF k < selected_timer + 1 THEN timers[k] ELSE timers[k + 1]
          /\ timers'[selected_timer + 1] = timers[selected_timer + 2]
          /\ UNCHANGED <<time, guard, advances, elapsed, fired>>
          /\ \A k \in 1..Len(timers') :
                LET tk == timers'[k].task_handle
                IN  /\ tk # NoTask
                    /\ task'[tk] = task[tk]
                    /\ task'[tk].time = timers'[k].timer_state
                    /\ ~task'[tk].aborted
                    /\ task'[tk].pc \notin Gone
    ]_vars

\* ctrl+d has just removed the middle one of three slots; the third, now at
\* index 1, had counted one second before the key and still shows it.
RemovalCompactsWitness ==
    /\ last.key = "ctrl_d"
    /\ last.len = 3
    /\ last.sel = 1
    /\ Len(timers) = 2
    /\ timers[2].timer_state = 3
    /\ last.time[3].second = 1
    /\ time[3].second = 1

\* C7: with one timer, ctrl+d changes neither the slot (its Time, its label, its
\* handle) nor the selection, and does not abort the slot's task, which stays
\* live.
LastTimerRemovalNoOp ==
    [][(Handles("ctrl_d") /\ Len(timers) = 1) =>
          /\ UNCHANGED <<timers, selected_timer, tickvars>>
          /\ ~task'[timers'[1].task_handle].aborted
          /\ task'[timers'[1].task_handle].pc \notin Gone
    ]_vars

\* ctrl+d has just been handled with one timer, and the counter of that timer
\* has counted a second since.
LastTimerRemovalNoOpWitness ==
    /\ last.key = "ctrl_d"
    /\ last.len = 1
    /\ Len(timers) = 1
    /\ last.time[timers[1].timer_state].second = 0
    /\ time[timers[1].timer_state].second = 1

InRange(t) ==
    /\ 0 <= t.second /\ t.second < 60
    /\ 0 <= t.minute /\ t.minute < 60
    /\ 0 <= t.hour /\ t.hour < 24

\* C2: whenever the counter does not hold the Mutex of a Time, its second,
\* minute and hour are in range, and its days never decrease.  (days changes
\* only while the counter holds the Mutex, in its last statement, so a step
\* that lowers it is seen by the next snapshot.)
ClockRange ==
    /\ [](\A id \in Ids : guard[id] # "ticker" => InRange(time[id]))
    /\ [][\A id \in Ids : time'[id].days >= time[id].days]_vars

\* The base 60/60/24 decomposition of n = 86400 * q + r.
Decompose(c) ==
    [second |-> c.r % 60, minute |-> (c.r \div 60) % 60,
     hour |-> (c.r \div 3600) % 24, days |-> c.q]

\* C10: whenever the counter does not hold the Mutex of a Time, the Time is the
\* base 60/60/24 decomposition of the number of passes through the loop body
\* made on it since Time::new().
CarryCorrect ==
    \A id \in Ids : guard[id] # "ticker" => time[id] = Decompose(advances[id])

\* C11: no pass through the loop body lowers days, and none ends the counter:
\* also the pass that carries out of hour when days is 65535, the largest u16.
DaysNeverWrap ==
    [][\A tk \in Ids :
          task[tk].pc = "inc_d" /\ task'[tk].pc # "inc_d" =>
              /\ time'[task[tk].time].days >= time[task[tk].time].days
              /\ task'[tk].pc = "tick"
    ]_vars

\* C12: the batch the draw gets has one element per slot of timers, at least
\* one; while it is built it has one element per slot passed, each pushed as
\* the clone of the Time of the slot at the index it gets in the batch, with
\* timers as it was; and the element at index i is a value the Time of the slot
\* at index i has had.
SnapshotShape ==
    /\ [](mainpc = "input" =>
             /\ Len(time_snapshots) = Len(timers)
             /\ Len(time_snapshots) >= 1
             /\ \A i \in 1..Len(timers) :
                    \E n \in 0..advances[timers[i].timer_state].r :
                       time_snapshots[i] = Decompose([q |-> 0, r |-> n]))
    /\ [](mainpc \in {"snap", "clone"} =>
             Len(time_snapshots) = snap_i /\ snap_i <= Len(timers))
    /\ [][mainpc = "clone" /\ mainpc' = "snap" =>
             /\ timers' = timers
             /\ time_snapshots' =
                    Append(time_snapshots,
                           time[timers[Len(time_snapshots) + 1].timer_state])
       ]_vars

\* The batch of a registry whose middle slot was removed: the Time of the slot
\* now at index 1 had counted a second, the Time of the slot at index 0 none.
SnapshotShapeWitness ==
    /\ mainpc = "input"
    /\ Len(timers) = 2
    /\ timers[1].timer_state = 1
    /\ timers[2].timer_state = 3
    /\ time_snapshots[1].second = 0
    /\ time_snapshots[2].second = 1

\* c and n more seconds, for n below a day.
CountAdd(c, n) ==
    IF c.r + n >= 86400
    THEN [q |-> c.q + 1, r |-> c.r + n - 86400]
    ELSE [c EXCEPT !.r = @ + n]

\* The tick deadlines of the task's interval that have passed since it started.
Since(tk) == CountAdd(origin[tk], elapsed[tk])

\* The task has made up every deadline that has passed and waits for the next.
CaughtUp(tk) == task[tk].pc = "idle_tick" /\ fired[tk] = elapsed[tk]

\* C13: a statement of the loop body changes no Time but the one its task was
\* spawned on, and nothing else changes a Time; ctrl+a changes no Time there
\* was, and the Time of the slot it adds is new and zero; so the Time of a
\* counter that has made up its deadlines reads the seconds since that counter
\* started, whatever the other counter did: 0:01:05 after 65 seconds, and with
\* a timer added then, 0:01:10 and 0:00:05 five seconds later.
IndependentClocks ==
    /\ [][\A id \in Ids :
             time'[id] # time[id] =>
                \E tk \in Ids :
                   /\ task[tk].time = id
                   /\ task[tk].pc \in InBody
                   /\ task'[tk].pc # task[tk].pc
                   /\ \A other \in Ids \ {id} : time'[other] = time[other]
       ]_vars
    /\ [][Handles("ctrl_a") =>
             /\ \A k \in 1..Len(timers) :
                    time'[timers[k].timer_state] = time[timers[k].timer_state]
             /\ Len(timers') > Len(timers) =>
                    LET new == timers'[Len(timers')].timer_state
                    IN  /\ time'[new] = TimeNew
                        /\ \A k \in 1..Len(timers) : timers[k].timer_state # new
                        /\ \A tk \in Ids : Live(tk) => task[tk].time # new
       ]_vars
    /\ [](\A k \in 1..Len(timers) :
             CaughtUp(timers[k].task_handle) =>
                time[timers[k].timer_state] = Decompose(Since(timers[k].task_handle)))

\* The first timer has run 70 seconds and reads 0:01:10; the second, added by
\* the last key when the first read 0:01:05, has run 5 seconds and reads 0:00:05.
IndependentClocksWitness ==
    /\ Len(timers) = 2
    /\ Since(timers[1].task_handle) = [q |-> 0, r |-> 70]
    /\ Since(timers[2].task_handle) = [q |-> 0, r |-> 5]
    /\ time[timers[1].timer_state] = [second |-> 10, minute |-> 1, hour |-> 0, days |-> 0]
    /\ time[timers[2].timer_state] = [second |-> 5, minute |-> 0, hour |-> 0, days |-> 0]
    /\ last.key = "ctrl_a"
    /\ last.time[timers[1].timer_state] =
           [second |-> 5, minute |-> 1, hour |-> 0, days |-> 0]

\* C14: Enter in input mode gives the selected slot the buffer as its label, no
\* label when the buffer is empty, and changes nothing else of the registry:
\* the slots, their Times and handles, the other labels and the selection stay,
\* and so do every Time and every task.
LabelOnly ==
    [][Handles("enter") =>
          /\ Len(timers') = Len(timers)
          /\ \A k \in 1..Len(timers) :
                /\ timers'[k].timer_state = timers[k].timer_state
                /\ timers'[k].task_handle = timers[k].task_handle
                /\ timers'[k].label =
                       IF k # selected_timer + 1 THEN timers[k].label
                       ELSE IF input_buffer = "" THEN NoLabel
                       ELSE input_buffer
          /\ selected_timer' = selected_timer
          /\ UNCHANGED <<tickvars, allocvars>>
    ]_vars

\* Enter has just labelled the selected slot, not the first, of a registry in
\* which another slot has a label.
LabelOnlyWitness ==
    /\ last.key = "enter"
    /\ last.sel > 0
    /\ selected_timer = last.sel
    /\ timers[last.sel + 1].label = "a"
    /\ \E k \in 1..Len(timers) : k # last.sel + 1 /\ timers[k].label = "a"

ValueAfter(c) == [Decompose(c) EXCEPT !.days = c.q % U16]

\* C16: a counter is within the loop body only with the Mutex of its Time held,
\* so the snapshot loop, which clones under the same Mutex, never clones in the
\* middle of a pass: the value it clones is in range and is the value after
\* the passes completed on that Time, never one with a field reset and the
\* next field not yet carried.
AtomicAdvance ==
    /\ [](\A tk \in Ids :
             task[tk].pc \in InBody => guard[task[tk].time] = "ticker")
    /\ [](\A id \in Ids :
             Cardinality({tk \in Ids : task[tk].time = id /\ task[tk].pc \in InBody})
                 <= 1)
    /\ [][mainpc = "clone" /\ mainpc' = "snap" =>
             LET id == timers[snap_i + 1].timer_state
                 v == time_snapshots'[Len(time_snapshots')]
             IN  /\ InRange(v)
                 /\ v = ValueAfter(advances[id])
       ]_vars

\* The counters waiting for a Mutex that the snapshot loop holds.
BlockedByReader ==
    {tk \in Ids : task[tk].pc \in {"lock", "idle_lock"}
                     /\ guard[task[tk].time] = "reader"}

\* C17: the snapshot loop holds the Mutex of at most one Time: none between two
\* iterations, and within an iteration that of the slot it is at only; so the
\* counters it keeps waiting are counters of one timer.
OneGuard ==
    /\ Cardinality({id \in Ids : guard[id] = "reader"}) <= 1
    /\ mainpc # "clone" => \A id \in Ids : guard[id] # "reader"
    /\ mainpc = "clone" =>
          \A id \in Ids :
             guard[id] = "reader" <=> id = timers[snap_i + 1].timer_state
    /\ \A t1, t2 \in BlockedByReader : task[t1].time = task[t2].time

\* The loop holds the Mutex of the second timer, whose counter waits for it,
\* while the counter of the first timer, cloned before, is within its loop body.
OneGuardWitness ==
    /\ mainpc = "clone"
    /\ snap_i = 1
    /\ Len(timers) = 2
    /\ task[timers[2].task_handle].pc = "idle_lock"
    /\ task[timers[1].task_handle].pc \in InBody

\* a <= b
CountLE(a, b) == a.q < b.q \/ (a.q = b.q /\ a.r <= b.r)

\* C18: the passes through the loop body made on a Time are never more than
\* the whole seconds that have passed since its counter started: none at the
\* start, and none before the first deadline, one second after the start.
NoEarlyTick ==
    \A tk \in Ids :
       task[tk].pc # "none" =>
          /\ fired[tk] <= elapsed[tk]
          /\ CountLE(advances[task[tk].time], Since(tk))
          /\ elapsed[tk] = 0 =>
                 /\ advances[task[tk].time] = origin[tk]
                 /\ time[task[tk].time] = Decompose(origin[tk])

\* The counter of the added timer has made its first pass, its first deadline
\* having passed, while the first counter is three deadlines late.
NoEarlyTickWitness ==
    /\ Len(timers) = 2
    /\ elapsed[timers[2].task_handle] = 1
    /\ advances[timers[2].timer_state] = [q |-> 0, r |-> 1]
    /\ elapsed[timers[1].task_handle] = 3
    /\ fired[timers[1].task_handle] = 0

\* C19: a counter that has made up the deadlines it missed and waits for the
\* next one has a Time whose total, 86400 * days + 3600 * hour + 60 * minute +
\* second, is the seconds that have passed since the counter started: no
\* deadline is lost, however late the counter was.
NoDrift ==
    \A k \in 1..Len(timers) :
       CaughtUp(timers[k].task_handle) =>
          Count(time[timers[k].timer_state]) = Since(timers[k].task_handle)

\* The live tasks, not aborted, that count on the Time of the slot at index k - 1.
Attached(k) ==
    {tk \in Ids : /\ Live(tk)
                  /\ ~task[tk].aborted
                  /\ task[tk].time = timers[k].timer_state}

\* C20: until the runtime is dropped, every slot of timers has exactly one live
\* task, not aborted, counting on its Time, the one whose handle the slot
\* holds; ctrl+a on a full registry spawns nothing; and ctrl+d aborts the task
\* of the slot it removes and touches no other task.
SlotTickerPairing ==
    /\ [](mainpc \notin {"closing", "exited"} =>
             \A k \in 1..Len(timers) : Attached(k) = {timers[k].task_handle})
    /\ [][Handles("ctrl_a") /\ Len(timers) = CAPACITY => task' = task]_vars
    /\ [][Handles("ctrl_d") =>
             \A tk \in Ids :
                task'[tk] # task[tk] =>
                   /\ Len(timers) > 1
                   /\ tk = timers[selected_timer + 1].task_handle
                   /\ task'[tk] = [task[tk] EXCEPT !.aborted = TRUE]
       ]_vars

\* The task has a deadline that has passed and no pass made for it yet.
Due(tk) == task[tk].pc # "none" /\ advances[task[tk].time] # Since(tk)

\* Whoever holds the Mutex of a Time is at a step it can take: the snapshot
\* loop at its clone, a counter within its loop body.
HolderRuns ==
    \A id \in Ids :
       /\ guard[id] = "reader" =>
              mainpc = "clone" /\ timers[snap_i + 1].timer_state = id
       /\ guard[id] = "ticker" =>
              \E tk \in Ids : task[tk].time = id /\ task[tk].pc \in InBody

\* C21: no Mutex is held by a task that cannot go on, so nothing waits for a
\* Mutex forever; and with fair scheduling every pass of the snapshot loop
\* ends with the batch complete, and every counter with a deadline passed makes
\* the pass through the loop body for it.
Progress ==
    /\ []HolderRuns
    /\ (mainpc \in {"snap", "clone"}) ~>
           (mainpc = "input" /\ Len(time_snapshots) = Len(timers))
    /\ \A tk \in Ids : Due(tk) ~> ~Due(tk)

====
